---- MODULE Spec2Model ----
(***************************************************************************)
(* Diff-to-suggestion extraction of .dagger/suggestions.py.                *)
(*                                                                         *)
(* One call of parse_diff is modelled as a state machine: the facade       *)
(* dispatches on the input's type, then either _parse_raw_diff scans the   *)
(* text one line per step, or _parse_git_diffs/_parse_hunk scan the        *)
(* structured records one element per step.  A line of text is a sequence  *)
(* of one-character strings, so that the regular expressions and the       *)
(* startswith tests of the source are computed, not assumed.  The input is *)
(* drawn one line (one record, one hunk line) at a time; `consumed` keeps  *)
(* the lines scanned so far.                                               *)
(***************************************************************************)
EXTENDS Integers, Sequences, FiniteSets

VARIABLES
    pc,               \* where the call is: "parse_diff", "raw", "git_diffs",
                      \* "git_hunks", "git_lines", "returned", "raised"
    input_kind,       \* type of diff_input: "str", "list", "GitDiff", "other"
    GIT_SUPPORT,      \* module flag set by the import at load time
    exc,              \* the exception a raised call ended with, or "none":
                      \* "ValueError: Unsupported diff input type" (parse_diff),
                      \* "ValueError: int string conversion" (int()),
                      \* "AttributeError" (diff.is_binary)
    profile,          \* which bounded set of texts the input is drawn from
    current_file,     \* _parse_raw_diff.current_file
    current_line,     \* _parse_raw_diff.current_line / _parse_hunk.current_line
    new_code,         \* _parse_raw_diff.new_code / _parse_hunk.new_code
    removal_reached,  \* _parse_raw_diff.removal_reached
    suggestions,      \* the output list
    file_path,        \* _parse_git_diffs.file_path
    outer_line,       \* _parse_git_diffs.current_line
    nDiffs,           \* records of the collection taken so far
    nHunks,           \* hunks of the current record taken so far
    nLines,           \* hunk lines taken so far in this call
    consumed,         \* history: the text lines scanned so far; for the
                      \* structured scan, the records, hunks and lines scanned
                      \* so far written as unified diff text
    pendIdx,          \* history: index in `consumed` of each line of new_code
    emitIdx,          \* history: per suggestion, index of the line that
                      \* emitted it (Len(consumed) + 1 for an end-of-loop flush)
    emitSrc,          \* history: per suggestion, indices of its lines
    calls,            \* several calls of _parse_raw_diff in progress at once:
                      \* per call its argument so far, its locals, its position
    copies,           \* _parse_raw_diff and Workspace.parse_diff called with
                      \* the same text: the text so far, the locals of each
    post              \* one call of Workspace.suggest or of
                      \* GithubClient.post_code_suggestions: its arguments, its
                      \* locals, its position, and what it asked of GitHub

oneCallVars ==
    <<pc, input_kind, GIT_SUPPORT, exc, profile, current_file, current_line,
      new_code, removal_reached, suggestions, file_path, outer_line,
      nDiffs, nHunks, nLines, consumed, pendIdx, emitIdx, emitSrc>>
vars == <<oneCallVars, calls, copies, post>>

rawVars == <<current_file, current_line, new_code, removal_reached>>
gitVars == <<file_path, outer_line, nDiffs, nHunks, nLines>>
histVars == <<consumed, pendIdx, emitIdx, emitSrc>>
callVars == <<input_kind, GIT_SUPPORT, profile, calls, copies, post>>

(***************************************************************************)
(* Bounds of the model.                                                    *)
(***************************************************************************)
MaxLenCore == 6
MaxLenEdge == 4
MaxLenHuge == 2
MaxDiffs == 2
MaxHunks == 2
MaxGitLines == 3
MaxLenCalls == 3
MaxLenCopies == 4

(***************************************************************************)
(* Text lines.                                                             *)
(***************************************************************************)
L_NEW_F == <<"+", "+", "+", " ", "b", "/", "f">>
L_OLD_G == <<"-", "-", "-", " ", "a", "/", "g">>
L_HUNK_1 == <<"@", "@", " ", "-", "1", " ", "+", "1", " ", "@", "@">>
L_HUNK_10 == <<"@", "@", " ", "-", "9", " ", "+", "1", "0", " ", "@", "@">>
L_HUNK_BAD == <<"@", "@", " ", "b", "a", "d">>
L_ADD_X == <<"+", "x">>
L_ADD_Y == <<"+", "y">>
L_ADD_PP == <<"+", "+", "+", "i">>
L_REM_X == <<"-", "x">>
L_CTX_K == <<" ", "k">>
L_BLANK == <<>>

\* int(s) raises ValueError when s has more digits than this: CPython's default
\* sys.int_max_str_digits (3.11, and the security releases of 3.7 to 3.10)
IntMaxStrDigits == 4300
\* a hunk header whose new-file start has one digit more than int() converts
L_HUNK_HUGE ==
    <<"@", "@", " ", "-", "1", " ", "+">> \o [i \in 1..(IntMaxStrDigits + 1) |-> "1"]

\* a hunk header followed by section text, as git prints it ("@@ ... @@ <text>"),
\* where the text holds " +<digit>"
L_HUNK_SEC ==
    <<"@", "@", " ", "-", "1", " ", "+", "1", " ", "@", "@", " ", "y", " ", "+", "5">>

CoreLines == {L_NEW_F, L_HUNK_10, L_ADD_X, L_ADD_Y, L_REM_X, L_CTX_K}
EdgeLines == {L_NEW_F, L_OLD_G, L_HUNK_1, L_HUNK_BAD, L_ADD_X, L_ADD_PP,
              L_REM_X, L_CTX_K, L_BLANK}

HugeLines == {L_NEW_F, L_HUNK_HUGE, L_HUNK_SEC, L_ADD_X}

AllLines == CoreLines \cup EdgeLines \cup HugeLines

Profiles == {"core", "edge", "huge"}
Alphabet(p) ==
    CASE p = "core" -> CoreLines [] p = "edge" -> EdgeLines [] p = "huge" -> HugeLines
LenBound(p) ==
    CASE p = "core" -> MaxLenCore [] p = "edge" -> MaxLenEdge [] p = "huge" -> MaxLenHuge

(***************************************************************************)
(* str.startswith, and the two regular expressions of _parse_raw_diff.     *)
(***************************************************************************)
StartsWith(l, p) == Len(l) >= Len(p) /\ SubSeq(l, 1, Len(p)) = p

Digits == {"0", "1", "2", "3", "4", "5", "6", "7", "8", "9"}

DigitVal(c) ==
    CASE c = "0" -> 0 [] c = "1" -> 1 [] c = "2" -> 2 [] c = "3" -> 3
      [] c = "4" -> 4 [] c = "5" -> 5 [] c = "6" -> 6 [] c = "7" -> 7
      [] c = "8" -> 8 [] c = "9" -> 9

\* file_regex = ^\+\+\+ b/(.+) : the prefix and at least one more character
FileRegexMatch(l) == StartsWith(l, <<"+", "+", "+", " ", "b", "/">>) /\ Len(l) >= 7
FileRegexGroup(l) == SubSeq(l, 7, Len(l))

\* line_regex = ^@@ .* \+(\d+),? : "@@ ", anything, then " +" and digits.
\* The positions of the space of a " +<digit>" that may follow "@@ " and ".*".
PlusPositions(l) ==
    {i \in 4..(Len(l) - 2) : l[i] = " " /\ l[i + 1] = "+" /\ l[i + 2] \in Digits}
LineRegexMatch(l) == StartsWith(l, <<"@", "@", " ">>) /\ PlusPositions(l) # {}

Max(S) == CHOOSE m \in S : \A x \in S : x <= m
Min(S) == CHOOSE m \in S : \A x \in S : m <= x

\* (\d+) is greedy: the digits from position i as far as digits go
DigitRunEnd(l, i) ==
    Min({j \in i..Len(l) : j = Len(l) \/ l[j + 1] \notin Digits})

RECURSIVE IntOf(_, _, _)
IntOf(l, from, to) ==
    IF to < from THEN 0 ELSE IntOf(l, from, to - 1) * 10 + DigitVal(l[to])

\* ".*" is greedy: the group is taken at the last " +<digit>" of the line
LineRegexGroupStart(l) == Max(PlusPositions(l)) + 2
LineRegexGroupLen(l) ==
    DigitRunEnd(l, LineRegexGroupStart(l)) - LineRegexGroupStart(l) + 1

\* int(match.group(1)), where it converts
IntRaises(l) == LineRegexGroupLen(l) > IntMaxStrDigits
LineRegexGroup(l) ==
    LET i == LineRegexGroupStart(l)
    IN  IntOf(l, i, DigitRunEnd(l, i))

(***************************************************************************)
(* The branch a line takes in the loop body of _parse_raw_diff.            *)
(***************************************************************************)
IsFileLine(l) == FileRegexMatch(l)
IsHunkLine(l) == ~FileRegexMatch(l) /\ LineRegexMatch(l)
IsAddedLine(l) ==
    /\ ~FileRegexMatch(l)
    /\ ~LineRegexMatch(l)
    /\ StartsWith(l, <<"+">>)
    /\ ~StartsWith(l, <<"+", "+", "+">>)
IsContentLine(l) == ~IsFileLine(l) /\ ~IsHunkLine(l) /\ ~IsAddedLine(l)
IsRemovedLine(l) ==
    IsContentLine(l) /\ StartsWith(l, <<"-">>) /\ ~StartsWith(l, <<"-", "-", "-">>)

Truthy(s) == Len(s) > 0

CodeSuggestion(f, n, s) == [file |-> f, line |-> n, suggestion |-> s]

(***************************************************************************)
(* Initial state: a call of parse_diff about to test its argument.         *)
(***************************************************************************)
Init ==
    /\ pc = "parse_diff"
    /\ input_kind \in {"str", "list", "GitDiff", "other"}
    /\ GIT_SUPPORT \in BOOLEAN
    /\ profile \in Profiles
    /\ (input_kind # "str" => profile = "core")
    /\ exc = "none"
    /\ current_file = <<>>
    /\ current_line = 0
    /\ new_code = <<>>
    /\ removal_reached = FALSE
    /\ suggestions = <<>>
    /\ file_path = <<>>
    /\ outer_line = 0
    /\ nDiffs = 0
    /\ nHunks = 0
    /\ nLines = 0
    /\ consumed = <<>>
    /\ pendIdx = <<>>
    /\ emitIdx = <<>>
    /\ emitSrc = <<>>
    /\ calls = <<>>
    /\ copies = <<>>
    /\ post = <<>>

(***************************************************************************)
(* parse_diff: the dispatch facade.                                        *)
(***************************************************************************)
ParseDiffText ==
    /\ pc = "parse_diff"
    /\ input_kind = "str"
    /\ pc' = "raw"
    /\ suggestions' = <<>>
    /\ current_file' = <<>>
    /\ current_line' = 0
    /\ new_code' = <<>>
    /\ removal_reached' = FALSE
    /\ UNCHANGED <<exc, callVars, gitVars, histVars>>

ParseDiffGit ==
    /\ pc = "parse_diff"
    /\ input_kind # "str"
    /\ GIT_SUPPORT
    /\ input_kind \in {"list", "GitDiff"}
    /\ pc' = "git_diffs"
    /\ suggestions' = <<>>
    /\ UNCHANGED <<exc, callVars, rawVars, gitVars, histVars>>

ParseDiffUnsupported ==
    /\ pc = "parse_diff"
    /\ input_kind # "str"
    /\ ~(GIT_SUPPORT /\ input_kind \in {"list", "GitDiff"})
    /\ pc' = "raised"
    /\ exc' = "ValueError: Unsupported diff input type"
    /\ UNCHANGED <<callVars, rawVars, suggestions, gitVars, histVars>>

(***************************************************************************)
(* _parse_raw_diff: one iteration of the loop over diff_text.splitlines(). *)
(***************************************************************************)
RawTake(l) ==
    /\ pc = "raw"
    /\ Len(consumed) < LenBound(profile)
    /\ l \in Alphabet(profile)
    /\ consumed' = Append(consumed, l)

RawFileHeader(l) ==
    /\ RawTake(l)
    /\ IsFileLine(l)
    /\ current_file' = FileRegexGroup(l)
    /\ UNCHANGED <<pc, exc, callVars, current_line, new_code, removal_reached,
                   suggestions, gitVars, pendIdx, emitIdx, emitSrc>>

RawHunkHeader(l) ==
    /\ RawTake(l)
    /\ IsHunkLine(l)
    /\ ~IntRaises(l)
    /\ current_line' = LineRegexGroup(l) - 1
    /\ new_code' = <<>>
    /\ removal_reached' = FALSE
    /\ pendIdx' = <<>>
    /\ UNCHANGED <<pc, exc, callVars, current_file, suggestions, gitVars,
                   emitIdx, emitSrc>>

\* int() refuses the matched digits: the ValueError leaves _parse_raw_diff and
\* parse_diff
RawHunkHeaderIntRaises(l) ==
    /\ RawTake(l)
    /\ IsHunkLine(l)
    /\ IntRaises(l)
    /\ pc' = "raised"
    /\ exc' = "ValueError: int string conversion"
    /\ UNCHANGED <<callVars, rawVars, suggestions, gitVars, pendIdx, emitIdx,
                   emitSrc>>

RawAdded(l) ==
    /\ RawTake(l)
    /\ IsAddedLine(l)
    /\ new_code' = Append(new_code, Tail(l))
    /\ pendIdx' = Append(pendIdx, Len(consumed) + 1)
    /\ UNCHANGED <<pc, exc, callVars, current_file, current_line, removal_reached,
                   suggestions, gitVars, emitIdx, emitSrc>>

\* "if not removal_reached: current_line += 1"
Advanced == IF removal_reached THEN current_line ELSE current_line + 1

\* RawRemoved with "suggestions.insert(0, ...)" for "suggestions.append(...)"
RawRemoved_InsertFirst(l) ==
    /\ RawTake(l)
    /\ IsRemovedLine(l)
    /\ current_line' = Advanced
    /\ IF Truthy(new_code) /\ Truthy(current_file)
       THEN /\ suggestions' =
                 <<CodeSuggestion(current_file, Advanced, new_code)>> \o suggestions
            /\ new_code' = <<>>
            /\ emitIdx' = Append(emitIdx, Len(consumed) + 1)
            /\ emitSrc' = Append(emitSrc, pendIdx)
            /\ pendIdx' = <<>>
       ELSE UNCHANGED <<suggestions, new_code, emitIdx, emitSrc, pendIdx>>
    /\ removal_reached' = TRUE
    /\ UNCHANGED <<pc, exc, callVars, current_file, gitVars>>

RawRemoved(l) ==
    /\ RawTake(l)
    /\ IsRemovedLine(l)
    /\ current_line' = Advanced
    /\ IF Truthy(new_code) /\ Truthy(current_file)
       THEN /\ suggestions' =
                 Append(suggestions, CodeSuggestion(current_file, Advanced, new_code))
            /\ new_code' = <<>>
            /\ emitIdx' = Append(emitIdx, Len(consumed) + 1)
            /\ emitSrc' = Append(emitSrc, pendIdx)
            /\ pendIdx' = <<>>
       ELSE UNCHANGED <<suggestions, new_code, emitIdx, emitSrc, pendIdx>>
    /\ removal_reached' = TRUE
    /\ UNCHANGED <<pc, exc, callVars, current_file, gitVars>>

RawOther(l) ==
    /\ RawTake(l)
    /\ IsContentLine(l)
    /\ ~IsRemovedLine(l)
    /\ current_line' = Advanced
    /\ UNCHANGED <<pc, exc, callVars, current_file, new_code, removal_reached,
                   suggestions, gitVars, pendIdx, emitIdx, emitSrc>>

\* RawEnd with "if new_code:" for "if new_code and current_file:"
RawEnd_NoFileTest ==
    /\ pc = "raw"
    /\ IF Truthy(new_code)
       THEN /\ suggestions' =
                 Append(suggestions, CodeSuggestion(current_file, current_line, new_code))
            /\ emitIdx' = Append(emitIdx, Len(consumed) + 1)
            /\ emitSrc' = Append(emitSrc, pendIdx)
       ELSE UNCHANGED <<suggestions, emitIdx, emitSrc>>
    /\ pc' = "returned"
    /\ UNCHANGED <<exc, callVars, rawVars, gitVars, consumed, pendIdx>>

\* RawEnd with "if current_file:" for "if new_code and current_file:"
RawEnd_NoBufferTest ==
    /\ pc = "raw"
    /\ IF Truthy(current_file)
       THEN /\ suggestions' =
                 Append(suggestions, CodeSuggestion(current_file, current_line, new_code))
            /\ emitIdx' = Append(emitIdx, Len(consumed) + 1)
            /\ emitSrc' = Append(emitSrc, pendIdx)
       ELSE UNCHANGED <<suggestions, emitIdx, emitSrc>>
    /\ pc' = "returned"
    /\ UNCHANGED <<exc, callVars, rawVars, gitVars, consumed, pendIdx>>

\* after the loop: the pending suggestion, then return
RawEnd ==
    /\ pc = "raw"
    /\ IF Truthy(new_code) /\ Truthy(current_file)
       THEN /\ suggestions' =
                 Append(suggestions, CodeSuggestion(current_file, current_line, new_code))
            /\ emitIdx' = Append(emitIdx, Len(consumed) + 1)
            /\ emitSrc' = Append(emitSrc, pendIdx)
       ELSE UNCHANGED <<suggestions, emitIdx, emitSrc>>
    /\ pc' = "returned"
    /\ UNCHANGED <<exc, callVars, rawVars, gitVars, consumed, pendIdx>>

RawStep ==
    \E l \in AllLines :
        \/ RawFileHeader(l)
        \/ RawHunkHeader(l)
        \/ RawHunkHeaderIntRaises(l)
        \/ RawAdded(l)
        \/ RawRemoved(l)
        \/ RawOther(l)


(***************************************************************************)
(* _parse_raw_diff as a function of its argument: the locals of one call   *)
(* as a record, the loop body as a function of the locals and the line.    *)
(***************************************************************************)
IsText == input_kind = "str"

RawLocals ==
    [current_file |-> <<>>, current_line |-> 0, new_code |-> <<>>,
     removal_reached |-> FALSE, suggestions |-> <<>>, exc |-> "none"]

RawBody(st, l) ==
    LET adv == IF st.removal_reached THEN st.current_line ELSE st.current_line + 1
    IN  CASE st.exc # "none" -> st
          [] st.exc = "none" /\ IsFileLine(l) ->
                [st EXCEPT !.current_file = FileRegexGroup(l)]
          [] st.exc = "none" /\ IsHunkLine(l) /\ IntRaises(l) ->
                [st EXCEPT !.exc = "ValueError: int string conversion"]
          [] st.exc = "none" /\ IsHunkLine(l) /\ ~IntRaises(l) ->
                [st EXCEPT !.current_line = LineRegexGroup(l) - 1,
                           !.new_code = <<>>,
                           !.removal_reached = FALSE]
          [] st.exc = "none" /\ IsAddedLine(l) ->
                [st EXCEPT !.new_code = Append(st.new_code, Tail(l))]
          [] st.exc = "none" /\ IsRemovedLine(l) ->
                IF Truthy(st.new_code) /\ Truthy(st.current_file)
                THEN [st EXCEPT !.current_line = adv,
                                !.suggestions =
                                    Append(st.suggestions,
                                           CodeSuggestion(st.current_file, adv,
                                                          st.new_code)),
                                !.new_code = <<>>,
                                !.removal_reached = TRUE]
                ELSE [st EXCEPT !.current_line = adv, !.removal_reached = TRUE]
          [] st.exc = "none" /\ IsContentLine(l) /\ ~IsRemovedLine(l) ->
                [st EXCEPT !.current_line = adv]

RawAfterLoop(st) ==
    IF st.exc = "none" /\ Truthy(st.new_code) /\ Truthy(st.current_file)
    THEN [st EXCEPT !.suggestions =
                        Append(st.suggestions,
                               CodeSuggestion(st.current_file, st.current_line,
                                              st.new_code))]
    ELSE st

RECURSIVE RawLoop(_, _)
RawLoop(st, lines) ==
    IF lines = <<>> THEN st ELSE RawLoop(RawBody(st, Head(lines)), Tail(lines))

\* the list _parse_raw_diff returns for the text whose lines are `lines`
ParseRawDiff(lines) == RawAfterLoop(RawLoop(RawLocals, lines)).suggestions

\* the step actions above and the function compute the same locals
RawLoopAgrees ==
    (IsText /\ pc \in {"raw", "raised"}) =>
        RawLoop(RawLocals, consumed) =
            [current_file |-> current_file, current_line |-> current_line,
             new_code |-> new_code, removal_reached |-> removal_reached,
             suggestions |-> suggestions, exc |-> exc]
RawReturnAgrees == (IsText /\ pc = "returned") => suggestions = ParseRawDiff(consumed)

(***************************************************************************)
(* Several calls of _parse_raw_diff whose loop iterations interleave       *)
(* (threads, or tasks of one thread).  Each call has its own frame: the    *)
(* locals of lines 56-60 are created by the call, and every list the call  *)
(* builds ("suggestions = []", "new_code = []") is a new object.           *)
(***************************************************************************)
CallIds == {1, 2}
CallLines == {L_NEW_F, L_ADD_X, L_ADD_Y, L_REM_X}

CallEntry == [input |-> <<>>, locals |-> RawLocals, at |-> "raw"]

InitCalls ==
    /\ pc = "interleaved"
    /\ input_kind = "str"
    /\ GIT_SUPPORT = FALSE
    /\ profile = "core"
    /\ exc = "none"
    /\ current_file = <<>>
    /\ current_line = 0
    /\ new_code = <<>>
    /\ removal_reached = FALSE
    /\ suggestions = <<>>
    /\ file_path = <<>>
    /\ outer_line = 0
    /\ nDiffs = 0
    /\ nHunks = 0
    /\ nLines = 0
    /\ consumed = <<>>
    /\ pendIdx = <<>>
    /\ emitIdx = <<>>
    /\ emitSrc = <<>>
    /\ calls = [c \in CallIds |-> CallEntry]
    /\ copies = <<>>
    /\ post = <<>>

\* CallLine with new_code a module-level list that every call appends to
CallLine_SharedBuffer(c) ==
    /\ calls[c].at = "raw"
    /\ Len(calls[c].input) < MaxLenCalls
    /\ \E l \in CallLines :
          LET st == RawBody([calls[c].locals EXCEPT
                                !.new_code = calls[1].locals.new_code], l)
              own == [calls EXCEPT ![c] =
                         [input |-> Append(calls[c].input, l), locals |-> st,
                          at |-> "raw"]]
          IN  calls' = [own EXCEPT ![1].locals.new_code = st.new_code]
    /\ UNCHANGED <<oneCallVars, copies, post>>

\* one iteration of the loop of call c
CallLine(c) ==
    /\ calls[c].at = "raw"
    /\ Len(calls[c].input) < MaxLenCalls
    /\ \E l \in CallLines :
          calls' = [calls EXCEPT ![c] =
                       [input |-> Append(calls[c].input, l),
                        locals |-> RawBody(calls[c].locals, l),
                        at |-> "raw"]]
    /\ UNCHANGED <<oneCallVars, copies, post>>

\* call c leaves its loop and returns
CallReturn(c) ==
    /\ calls[c].at = "raw"
    /\ calls' = [calls EXCEPT ![c].locals = RawAfterLoop(calls[c].locals),
                              ![c].at = "returned"]
    /\ UNCHANGED <<oneCallVars, copies, post>>

NextCalls == \E c \in CallIds : CallLine(c) \/ CallReturn(c)

SpecCalls == InitCalls /\ [][NextCalls]_vars

(***************************************************************************)
(* Workspace.parse_diff (workspace/main.py): the module's own dataclass,   *)
(* the locals of one call, the loop body and the statements after the loop.*)
(***************************************************************************)
WsCodeSuggestion(f, n, s) == [file |-> f, line |-> n, suggestion |-> s]

WsLocals ==
    [current_file |-> <<>>, current_line |-> 0, new_code |-> <<>>,
     removal_reached |-> FALSE, suggestions |-> <<>>, exc |-> "none"]

\* WsBody with "current_line += 1" outside "if not removal_reached:"
WsBody_NoFlagTest(st, l) ==
    IF st.exc # "none" THEN st
    ELSE IF FileRegexMatch(l) THEN [st EXCEPT !.current_file = FileRegexGroup(l)]
    ELSE IF LineRegexMatch(l)
    THEN IF IntRaises(l)
         THEN [st EXCEPT !.exc = "ValueError: int string conversion"]
         ELSE [st EXCEPT !.current_line = LineRegexGroup(l) - 1,
                         !.new_code = <<>>,
                         !.removal_reached = FALSE]
    ELSE IF StartsWith(l, <<"+">>) /\ ~StartsWith(l, <<"+", "+", "+">>)
    THEN [st EXCEPT !.new_code = Append(st.new_code, Tail(l))]
    ELSE LET line == st.current_line + 1
         IN  IF StartsWith(l, <<"-">>) /\ ~StartsWith(l, <<"-", "-", "-">>)
             THEN IF Truthy(st.new_code) /\ Truthy(st.current_file)
                  THEN [st EXCEPT !.current_line = line,
                                  !.suggestions =
                                      Append(st.suggestions,
                                             WsCodeSuggestion(st.current_file, line,
                                                              st.new_code)),
                                  !.new_code = <<>>,
                                  !.removal_reached = TRUE]
                  ELSE [st EXCEPT !.current_line = line, !.removal_reached = TRUE]
             ELSE [st EXCEPT !.current_line = line]

\* one iteration of "for line in diff_text.splitlines()", main.py:137-170
WsBody(st, l) ==
    IF st.exc # "none" THEN st
    ELSE IF FileRegexMatch(l) THEN [st EXCEPT !.current_file = FileRegexGroup(l)]
    ELSE IF LineRegexMatch(l)
    THEN IF IntRaises(l)
         THEN [st EXCEPT !.exc = "ValueError: int string conversion"]
         ELSE [st EXCEPT !.current_line = LineRegexGroup(l) - 1,
                         !.new_code = <<>>,
                         !.removal_reached = FALSE]
    ELSE IF StartsWith(l, <<"+">>) /\ ~StartsWith(l, <<"+", "+", "+">>)
    THEN [st EXCEPT !.new_code = Append(st.new_code, Tail(l))]
    ELSE LET line == IF ~st.removal_reached THEN st.current_line + 1
                     ELSE st.current_line
         IN  IF StartsWith(l, <<"-">>) /\ ~StartsWith(l, <<"-", "-", "-">>)
             THEN IF Truthy(st.new_code) /\ Truthy(st.current_file)
                  THEN [st EXCEPT !.current_line = line,
                                  !.suggestions =
                                      Append(st.suggestions,
                                             WsCodeSuggestion(st.current_file, line,
                                                              st.new_code)),
                                  !.new_code = <<>>,
                                  !.removal_reached = TRUE]
                  ELSE [st EXCEPT !.current_line = line, !.removal_reached = TRUE]
             ELSE [st EXCEPT !.current_line = line]

\* main.py:172-178
WsAfterLoop(st) ==
    IF st.exc = "none" /\ Truthy(st.new_code) /\ Truthy(st.current_file)
    THEN [st EXCEPT !.suggestions =
                        Append(st.suggestions,
                               WsCodeSuggestion(st.current_file, st.current_line,
                                                st.new_code))]
    ELSE st

(***************************************************************************)
(* The two copies called with the same text, one line of it at a time.     *)
(***************************************************************************)
\* a line of every kind the loop body tells apart
CopiesLines == AllLines \ {L_HUNK_1, L_ADD_Y}

CopiesEntry == [input |-> <<>>, raw |-> RawLocals, ws |-> WsLocals, at |-> "raw"]

InitCopies ==
    /\ pc = "copies"
    /\ input_kind = "str"
    /\ GIT_SUPPORT = FALSE
    /\ profile = "core"
    /\ exc = "none"
    /\ current_file = <<>>
    /\ current_line = 0
    /\ new_code = <<>>
    /\ removal_reached = FALSE
    /\ suggestions = <<>>
    /\ file_path = <<>>
    /\ outer_line = 0
    /\ nDiffs = 0
    /\ nHunks = 0
    /\ nLines = 0
    /\ consumed = <<>>
    /\ pendIdx = <<>>
    /\ emitIdx = <<>>
    /\ emitSrc = <<>>
    /\ calls = <<>>
    /\ copies = CopiesEntry
    /\ post = <<>>

\* both loops take the next line; a call whose int() raised has ended
CopiesLine ==
    /\ copies.at = "raw"
    /\ Len(copies.input) < MaxLenCopies
    /\ \E l \in CopiesLines :
          LET r == RawBody(copies.raw, l)
              w == WsBody(copies.ws, l)
          IN  copies' = [input |-> Append(copies.input, l), raw |-> r, ws |-> w,
                         at |-> IF r.exc # "none" \/ w.exc # "none"
                                THEN "raised" ELSE "raw"]
    /\ UNCHANGED <<oneCallVars, calls, post>>

\* both loops end and the calls return
CopiesReturn ==
    /\ copies.at = "raw"
    /\ copies' = [copies EXCEPT !.raw = RawAfterLoop(copies.raw),
                                !.ws = WsAfterLoop(copies.ws),
                                !.at = "returned"]
    /\ UNCHANGED <<oneCallVars, calls, post>>

NextCopies == CopiesLine \/ CopiesReturn

SpecCopies == InitCopies /\ [][NextCopies]_vars

(***************************************************************************)
(* Posting: Workspace.suggest (workspace/main.py) and                      *)
(* GithubClient.post_code_suggestions (github_client.py), one call of      *)
(* either, one statement per step.  `post.log` keeps what the call asked   *)
(* of GitHub, and when it parsed; `post.reviews` the reviews it created.   *)
(***************************************************************************)
RECURSIVE WsLoop(_, _)
WsLoop(st, lines) ==
    IF lines = <<>> THEN st ELSE WsLoop(WsBody(st, Head(lines)), Tail(lines))

\* "\n".join(lines)
RECURSIVE JoinLines(_)
JoinLines(lines) ==
    IF lines = <<>> THEN <<>>
    ELSE IF Len(lines) = 1 THEN lines[1]
    ELSE lines[1] \o <<"\n">> \o JoinLines(Tail(lines))

\* the grave accent, which a string of this language cannot hold
GraveAccent == "GRAVE ACCENT"

\* the f-string of the comment body: a fence of three grave accents and the
\* word suggestion, a newline, suggestion_text, a newline, the closing fence
SuggestionBody(lines) ==
    <<GraveAccent, GraveAccent, GraveAccent,
      "s", "u", "g", "g", "e", "s", "t", "i", "o", "n", "\n">>
        \o JoinLines(lines) \o <<"\n", GraveAccent, GraveAccent, GraveAccent>>

\* the dict of _format_suggestion, and of the loop of Workspace.suggest
ReviewComment(sg) ==
    [path |-> sg.file, position |-> sg.line, body |-> SuggestionBody(sg.suggestion),
     line |-> sg.line, side |-> "RIGHT"]

Review(comments) ==
    [body |-> "Code suggestions from automated review", event |-> "COMMENT",
     comments |-> comments]

\* the diff texts of the calls: empty; one, two and three suggestions; texts
\* that give no suggestion (no file, no added line); a hunk start int() refuses
PostTexts ==
    {<<>>,
     <<L_NEW_F, L_HUNK_10, L_ADD_X>>,
     <<L_NEW_F, L_ADD_X, L_ADD_Y, L_REM_X, L_ADD_Y>>,
     <<L_NEW_F, L_HUNK_1, L_CTX_K, L_ADD_X, L_REM_X, L_ADD_Y, L_REM_X, L_ADD_X>>,
     <<L_ADD_X, L_REM_X>>,
     <<L_NEW_F, L_HUNK_1, L_CTX_K, L_REM_X>>,
     <<L_NEW_F, L_HUNK_HUGE>>}

InitPost ==
    /\ pc = "post"
    /\ input_kind = "str"
    /\ GIT_SUPPORT = FALSE
    /\ profile = "core"
    /\ exc = "none"
    /\ current_file = <<>>
    /\ current_line = 0
    /\ new_code = <<>>
    /\ removal_reached = FALSE
    /\ suggestions = <<>>
    /\ file_path = <<>>
    /\ outer_line = 0
    /\ nDiffs = 0
    /\ nHunks = 0
    /\ nLines = 0
    /\ consumed = <<>>
    /\ pendIdx = <<>>
    /\ emitIdx = <<>>
    /\ emitSrc = <<>>
    /\ calls = <<>>
    /\ copies = <<>>
    /\ \E proc \in {"suggest", "post_code_suggestions"}, token \in BOOLEAN,
          has_pr \in BOOLEAN, text \in PostTexts :
          post = [proc |-> proc,
                  token |-> token,      \* self.token is set
                  has_pr |-> has_pr,    \* an open pull request ends with the commit
                  text |-> text,        \* the lines of diff_text / diff
                  at |-> IF proc = "suggest" THEN "token_test" ELSE "get_pull",
                  exc |-> "none",
                  suggestions |-> <<>>,
                  review_comments |-> <<>>,
                  log |-> <<>>,
                  reviews |-> <<>>,
                  result |-> "none"]

PostUnchanged == UNCHANGED <<oneCallVars, calls, copies>>

\* a request to GitHub fails: the exception leaves the call
ApiFails(request) ==
    post' = [post EXCEPT !.at = "raised", !.exc = "GithubException",
                         !.log = Append(post.log, request)]

\* Workspace.suggest: "if not self.token: raise ValueError(...)"
SuggestTokenTest ==
    /\ post.at = "token_test"
    /\ IF ~post.token
       THEN post' = [post EXCEPT !.at = "raised",
                                 !.exc = "ValueError: GitHub token is required"]
       ELSE post' = [post EXCEPT !.at = "lookup"]
    /\ PostUnchanged

\* "pr_number = await github.get_pr_for_commit(repository, commit)"
SuggestLookup ==
    /\ post.at = "lookup"
    /\ \/ ApiFails("get_pr_for_commit")
       \/ /\ ~post.has_pr
          /\ post' = [post EXCEPT !.at = "raised",
                                  !.exc = "ValueError: No pull requests found",
                                  !.log = Append(post.log, "get_pr_for_commit")]
       \/ /\ post.has_pr
          /\ post' = [post EXCEPT !.at = "parse",
                                  !.log = Append(post.log, "get_pr_for_commit")]
    /\ PostUnchanged

\* SuggestParse without "if not suggestions: return ..."
SuggestParse_NoEarlyReturn ==
    /\ post.proc = "suggest"
    /\ post.at = "parse"
    /\ LET st == WsAfterLoop(WsLoop(WsLocals, post.text))
       IN  IF st.exc # "none"
           THEN post' = [post EXCEPT !.at = "raised", !.exc = st.exc,
                                     !.log = Append(post.log, "parse_diff")]
           ELSE post' = [post EXCEPT !.at = "format",
                                     !.suggestions = st.suggestions,
                                     !.log = Append(post.log, "parse_diff")]
    /\ PostUnchanged

\* "suggestions = self.parse_diff(diff_text)" and the early return
SuggestParse ==
    /\ post.proc = "suggest"
    /\ post.at = "parse"
    /\ LET st == WsAfterLoop(WsLoop(WsLocals, post.text))
       IN  IF st.exc # "none"
           THEN post' = [post EXCEPT !.at = "raised", !.exc = st.exc,
                                     !.log = Append(post.log, "parse_diff")]
           ELSE IF ~Truthy(st.suggestions)
           THEN post' = [post EXCEPT !.at = "returned",
                                     !.result = "No suggestions to make",
                                     !.log = Append(post.log, "parse_diff")]
           ELSE post' = [post EXCEPT !.at = "format",
                                     !.suggestions = st.suggestions,
                                     !.log = Append(post.log, "parse_diff")]
    /\ PostUnchanged

\* one iteration of "for suggestion in suggestions" (either procedure)
PostFormat ==
    /\ post.at = "format"
    /\ Len(post.review_comments) < Len(post.suggestions)
    /\ post' = [post EXCEPT !.review_comments =
                   Append(post.review_comments,
                          ReviewComment(post.suggestions[Len(post.review_comments) + 1]))]
    /\ PostUnchanged

\* "await github.create_review(...)" and the return
SuggestCreateReview ==
    /\ post.proc = "suggest"
    /\ post.at = "format"
    /\ Len(post.review_comments) = Len(post.suggestions)
    /\ \/ ApiFails("create_review")
       \/ post' = [post EXCEPT !.at = "returned",
                               !.result = "Posted suggestions",
                               !.reviews = Append(post.reviews,
                                                  Review(post.review_comments)),
                               !.log = Append(post.log, "create_review")]
    /\ PostUnchanged

\* post_code_suggestions: "repo = ...get_repo(repo_name); pr = repo.get_pull(pr_number)"
PostGetPull ==
    /\ post.at = "get_pull"
    /\ \/ ApiFails("get_pull")
       \/ post' = [post EXCEPT !.at = "parse", !.log = Append(post.log, "get_pull")]
    /\ PostUnchanged

\* "suggestions = parse_diff(diff)"
PostParse ==
    /\ post.proc = "post_code_suggestions"
    /\ post.at = "parse"
    /\ LET st == RawAfterLoop(RawLoop(RawLocals, post.text))
       IN  IF st.exc # "none"
           THEN post' = [post EXCEPT !.at = "raised", !.exc = st.exc,
                                     !.log = Append(post.log, "parse_diff")]
           ELSE post' = [post EXCEPT !.at = "format",
                                     !.suggestions = st.suggestions,
                                     !.log = Append(post.log, "parse_diff")]
    /\ PostUnchanged

\* "if review_comments: pr.create_review(...)" and the return
PostCreateReview ==
    /\ post.proc = "post_code_suggestions"
    /\ post.at = "format"
    /\ Len(post.review_comments) = Len(post.suggestions)
    /\ IF Truthy(post.review_comments)
       THEN \/ ApiFails("create_review")
            \/ post' = [post EXCEPT !.at = "returned",
                                    !.reviews = Append(post.reviews,
                                                       Review(post.review_comments)),
                                    !.log = Append(post.log, "create_review")]
       ELSE post' = [post EXCEPT !.at = "returned"]
    /\ PostUnchanged

NextPost ==
    \/ SuggestTokenTest
    \/ SuggestLookup
    \/ SuggestParse
    \/ PostFormat
    \/ SuggestCreateReview
    \/ PostGetPull
    \/ PostParse
    \/ PostCreateReview

SpecPost == InitPost /\ [][NextPost]_vars

(***************************************************************************)
(* History of the structured scan: what git prints for the same records.  *)
(***************************************************************************)
L_OLD_NULL == <<"-", "-", "-", " ", "/", "d", "e", "v", "/", "n", "u", "l", "l">>
L_NEW_NULL == <<"+", "+", "+", " ", "/", "d", "e", "v", "/", "n", "u", "l", "l">>
L_BINARY == <<"B", "i", "n", "a", "r", "y">>
L_NO_NEWLINE == <<"\\", " ", "N", "o", " ", "n", "e", "w", "l", "i", "n", "e">>

DigitChars == <<"0", "1", "2", "3", "4", "5", "6", "7", "8", "9">>

RenderOld(a) == IF Truthy(a) THEN <<"-", "-", "-", " ", "a", "/">> \o a ELSE L_OLD_NULL
RenderNew(b) == IF Truthy(b) THEN <<"+", "+", "+", " ", "b", "/">> \o b ELSE L_NEW_NULL
RenderHunk(start) ==
    <<"@", "@", " ", "-", DigitChars[start + 1], " ", "+", DigitChars[start + 1],
      " ", "@", "@">>
RenderLine(origin, content) == <<origin>> \o content

\* the index in `consumed` of the "+++" line of the record being scanned
RecordHeaderIdx(upto) ==
    Max({0} \cup {i \in 1..upto : StartsWith(consumed[i], <<"+", "+", "+", " ">>)})
\* the lines of the new file among consumed[from..to]: context and added lines
NewSideLines(from, to) ==
    Cardinality({i \in from..to : consumed[i][1] \in {" ", "+"}})
\* the new-file start git prints for a hunk that follows the lines scanned so far
NextHunkStart ==
    NewSideLines(RecordHeaderIdx(Len(consumed)) + 1, Len(consumed)) + 1

(***************************************************************************)
(* _parse_git_diffs: the loop over the records, and over a record's hunks. *)
(***************************************************************************)
Paths_b == {<<>>, <<"f">>}
Paths_a == {<<>>, <<"g">>}
Contents == {<<"x">>, <<"y">>}

\* `y or x` for `x or y`
Or_SecondFirst(x, y) == IF Truthy(y) THEN y ELSE x

\* Python's `x or y`
Or(x, y) == IF Truthy(x) THEN x ELSE y

\* the loop takes another element: a list may hold any number of them, a single
\* GitDiff is wrapped as a list of one
GitTake ==
    /\ pc = "git_diffs"
    /\ nDiffs < MaxDiffs
    /\ (input_kind = "GitDiff" => nDiffs = 0)
    /\ nDiffs' = nDiffs + 1

\* an element of the list that has no is_binary attribute
GitNotARecord ==
    /\ GitTake
    /\ input_kind = "list"
    /\ pc' = "raised"
    /\ exc' = "AttributeError"
    /\ UNCHANGED <<callVars, rawVars, suggestions, file_path, outer_line, nHunks,
                   nLines, histVars>>

GitSkipBinary ==
    /\ GitTake
    /\ consumed' = Append(consumed, L_BINARY)
    /\ UNCHANGED <<pc, exc, callVars, rawVars, suggestions, file_path, outer_line,
                   nHunks, nLines, pendIdx, emitIdx, emitSrc>>

GitSkipNoPath ==
    /\ GitTake
    /\ \E b \in Paths_b, a \in Paths_a :
          /\ ~Truthy(Or(b, a))
          /\ file_path' = Or(b, a)
          /\ consumed' = consumed \o <<RenderOld(a), RenderNew(b)>>
    /\ UNCHANGED <<pc, exc, callVars, rawVars, suggestions, outer_line, nHunks,
                   nLines, pendIdx, emitIdx, emitSrc>>

GitEnterDiff ==
    /\ GitTake
    /\ \E b \in Paths_b, a \in Paths_a :
          /\ Truthy(Or(b, a))
          /\ file_path' = Or(b, a)
          /\ consumed' = consumed \o <<RenderOld(a), RenderNew(b)>>
    /\ outer_line' = 0
    /\ nHunks' = 0
    /\ pc' = "git_hunks"
    /\ UNCHANGED <<exc, callVars, rawVars, suggestions, nLines, pendIdx, emitIdx,
                   emitSrc>>

GitReturn ==
    /\ pc = "git_diffs"
    /\ (input_kind = "GitDiff" => nDiffs = 1)
    /\ pc' = "returned"
    /\ UNCHANGED <<exc, callVars, rawVars, suggestions, gitVars, histVars>>

\* "current_line = _parse_hunk(hunk, file_path, current_line, suggestions)":
\* the call, up to the loop over hunk.lines
GitEnterHunk ==
    /\ pc = "git_hunks"
    /\ nHunks < MaxHunks
    /\ nHunks' = nHunks + 1
    /\ current_line' = outer_line
    /\ new_code' = <<>>
    /\ pc' = "git_lines"
    /\ consumed' = Append(consumed, RenderHunk(NextHunkStart))
    /\ pendIdx' = <<>>
    /\ UNCHANGED <<exc, callVars, current_file, removal_reached, suggestions,
                   file_path, outer_line, nDiffs, nLines, emitIdx, emitSrc>>

GitEndDiff ==
    /\ pc = "git_hunks"
    /\ pc' = "git_diffs"
    /\ UNCHANGED <<exc, callVars, rawVars, suggestions, gitVars, histVars>>

(***************************************************************************)
(* _parse_hunk: one iteration of the loop over hunk.lines, and its end.    *)
(***************************************************************************)
HunkTake ==
    /\ pc = "git_lines"
    /\ nLines < MaxGitLines
    /\ nLines' = nLines + 1

HunkContext ==
    /\ HunkTake
    /\ consumed' = Append(consumed, RenderLine(" ", <<"k">>))
    /\ IF Truthy(new_code)
       THEN /\ suggestions' =
                 Append(suggestions, CodeSuggestion(file_path, current_line, new_code))
            /\ new_code' = <<>>
            /\ emitIdx' = Append(emitIdx, Len(consumed) + 1)
            /\ emitSrc' = Append(emitSrc, pendIdx)
            /\ pendIdx' = <<>>
       ELSE UNCHANGED <<suggestions, new_code, emitIdx, emitSrc, pendIdx>>
    /\ current_line' = current_line + 1
    /\ UNCHANGED <<pc, exc, callVars, current_file, removal_reached, file_path,
                   outer_line, nDiffs, nHunks>>

HunkAdded ==
    /\ HunkTake
    /\ \E content \in Contents :
          /\ new_code' = Append(new_code, content)
          /\ consumed' = Append(consumed, RenderLine("+", content))
    /\ pendIdx' = Append(pendIdx, Len(consumed) + 1)
    /\ current_line' = current_line + 1
    /\ UNCHANGED <<pc, exc, callVars, current_file, removal_reached, suggestions,
                   file_path, outer_line, nDiffs, nHunks, emitIdx, emitSrc>>

\* HunkRemoved with "current_line += 1" in the "-" branch as well
HunkRemoved_Advances ==
    /\ HunkTake
    /\ consumed' = Append(consumed, RenderLine("-", <<"x">>))
    /\ IF Truthy(new_code)
       THEN /\ suggestions' =
                 Append(suggestions, CodeSuggestion(file_path, current_line, new_code))
            /\ new_code' = <<>>
            /\ emitIdx' = Append(emitIdx, Len(consumed) + 1)
            /\ emitSrc' = Append(emitSrc, pendIdx)
            /\ pendIdx' = <<>>
       ELSE UNCHANGED <<suggestions, new_code, emitIdx, emitSrc, pendIdx>>
    /\ current_line' = current_line + 1
    /\ UNCHANGED <<pc, exc, callVars, current_file, removal_reached, file_path,
                   outer_line, nDiffs, nHunks>>

HunkRemoved ==
    /\ HunkTake
    /\ consumed' = Append(consumed, RenderLine("-", <<"x">>))
    /\ IF Truthy(new_code)
       THEN /\ suggestions' =
                 Append(suggestions, CodeSuggestion(file_path, current_line, new_code))
            /\ new_code' = <<>>
            /\ emitIdx' = Append(emitIdx, Len(consumed) + 1)
            /\ emitSrc' = Append(emitSrc, pendIdx)
            /\ pendIdx' = <<>>
       ELSE UNCHANGED <<suggestions, new_code, emitIdx, emitSrc, pendIdx>>
    /\ UNCHANGED <<pc, exc, callVars, current_file, current_line, removal_reached,
                   file_path, outer_line, nDiffs, nHunks>>

\* a line whose origin is none of " ", "+", "-": no branch of the if applies
HunkOtherOrigin ==
    /\ HunkTake
    /\ consumed' = Append(consumed, L_NO_NEWLINE)
    /\ UNCHANGED <<pc, exc, callVars, rawVars, suggestions, file_path, outer_line,
                   nDiffs, nHunks, pendIdx, emitIdx, emitSrc>>

\* after the loop: the remaining suggestion, then "return current_line"
HunkEnd ==
    /\ pc = "git_lines"
    /\ IF Truthy(new_code)
       THEN /\ suggestions' =
                 Append(suggestions, CodeSuggestion(file_path, current_line, new_code))
            /\ emitIdx' = Append(emitIdx, Len(consumed) + 1)
            /\ emitSrc' = Append(emitSrc, pendIdx)
       ELSE UNCHANGED <<suggestions, emitIdx, emitSrc>>
    /\ outer_line' = current_line
    /\ pc' = "git_hunks"
    /\ UNCHANGED <<exc, callVars, rawVars, file_path, nDiffs, nHunks, nLines,
                   consumed, pendIdx>>

Next ==
    \/ ParseDiffText
    \/ ParseDiffGit
    \/ ParseDiffUnsupported
    \/ RawStep
    \/ RawEnd
    \/ GitNotARecord
    \/ GitSkipBinary
    \/ GitSkipNoPath
    \/ GitEnterDiff
    \/ GitReturn
    \/ GitEnterHunk
    \/ GitEndDiff
    \/ HunkContext
    \/ HunkAdded
    \/ HunkRemoved
    \/ HunkOtherOrigin
    \/ HunkEnd

Spec == Init /\ [][Next]_vars
(***************************************************************************)
(* The vocabulary of the claims: what a unified diff calls its lines       *)
(* (spec 4.2 and 6), independent of the branch the scanner takes.          *)
(***************************************************************************)
Returned == pc = "returned"
Last(s) == s[Len(s)]

DiffNewHeader(l) == StartsWith(l, <<"+", "+", "+", " ", "b", "/">>) /\ Len(l) >= 7
DiffOldHeader(l) == StartsWith(l, <<"-", "-", "-", " ", "a", "/">>)
DiffHunkHeader(l) == StartsWith(l, <<"@", "@", " ", "-">>) /\ PlusPositions(l) # {}
\* the new-file start of "@@ -a,b +c,d @@" is c, the first "+<digits>" field
DiffHunkStart(l) ==
    LET i == Min(PlusPositions(l)) + 2
    IN  IntOf(l, i, DigitRunEnd(l, i))
DiffAdded(l) == StartsWith(l, <<"+">>) /\ ~DiffNewHeader(l)
DiffRemoved(l) == StartsWith(l, <<"-">>) /\ ~DiffOldHeader(l)
DiffContext(l) == StartsWith(l, <<" ">>)

\* the contents of the lines of `consumed` at the indices from..to
RECURSIVE Stripped(_, _)
Stripped(from, to) ==
    IF to < from THEN <<>> ELSE Append(Stripped(from, to - 1), Tail(consumed[to]))

(***************************************************************************)
(* C1.  Text parser: for an input made of a file header "+++ b/<path>",    *)
(* one hunk header with new-file start s, k >= 0 context lines, m >= 1     *)
(* added lines and then a removed line, exactly one suggestion is emitted, *)
(* at that removed line, with file = <path>, line = s + k and suggestion = *)
(* the m added lines in order with the leading "+" stripped.               *)
(***************************************************************************)
\* the index of the first added line of an input of that shape, 0 if it has not
\* that shape
C1_FirstAdded ==
    LET n == Len(consumed)
        firsts == {a \in 3..(n - 1) :
                     /\ \A i \in 3..(a - 1) : DiffContext(consumed[i])
                     /\ \A i \in a..(n - 1) : DiffAdded(consumed[i])}
    IN  IF /\ n >= 4
           /\ DiffNewHeader(consumed[1])
           /\ DiffHunkHeader(consumed[2])
           /\ DiffRemoved(consumed[n])
           /\ firsts # {}
        THEN Min(firsts)
        ELSE 0

C1_Expected ==
    LET n == Len(consumed)
        a == C1_FirstAdded
    IN  <<CodeSuggestion(SubSeq(consumed[1], 7, Len(consumed[1])),
                         DiffHunkStart(consumed[2]) + (a - 3),
                         Stripped(a, n - 1))>>

\* C1: an input of that shape gives exactly that one suggestion
C1_ShapeGivesOneSuggestion ==
    (IsText /\ Returned /\ C1_FirstAdded # 0) =>
        /\ suggestions = C1_Expected
        /\ emitIdx = <<Len(consumed)>>

\* The same statement for the lines the scanner takes as added lines (no "+++"
\* prefix): the cases A and B of spec 8 are of this kind.
C1_ShapeOfRecognisedLines ==
    (/\ IsText /\ Returned /\ C1_FirstAdded # 0
     /\ \A i \in C1_FirstAdded..(Len(consumed) - 1) : IsAddedLine(consumed[i])) =>
        /\ suggestions = C1_Expected
        /\ emitIdx = <<Len(consumed)>>

C1_CaseB ==
    /\ Returned
    /\ consumed = <<L_NEW_F, L_HUNK_10, L_CTX_K, L_ADD_X, L_ADD_Y, L_REM_X>>
    /\ suggestions = <<CodeSuggestion(<<"f">>, 11, << <<"x">>, <<"y">> >>)>>

(***************************************************************************)
(* C2.  Text parser: every suggestion emitted at a removed line, anywhere  *)
(* in a hunk (a second or later add-then-remove change included), has as   *)
(* its line the new-file position at which the replacement content starts, *)
(* one past the last context line preceding the change.                    *)
(***************************************************************************)
\* the last hunk header before line i, 0 if there is none
HunkHeaderBefore(i) ==
    LET hs == {h \in 1..(i - 1) : DiffHunkHeader(consumed[h])}
    IN  IF hs = {} THEN 0 ELSE Max(hs)

\* the new-file line number of line j of the hunk whose header is line h: the
\* hunk's start plus the context and added lines between the header and j
NewFilePosition(h, j) ==
    DiffHunkStart(consumed[h])
        + Cardinality({i \in (h + 1)..(j - 1) : ~DiffRemoved(consumed[i])})

\* suggestion e was emitted at a removed line of a hunk made of context, added
\* and removed lines only, and holds exactly the added lines right before it
C2_IsChange(e) ==
    LET r == emitIdx[e]
        h == HunkHeaderBefore(r)
        src == emitSrc[e]
    IN  /\ r <= Len(consumed)
        /\ h # 0
        /\ \A i \in (h + 1)..r :
              DiffContext(consumed[i]) \/ IsAddedLine(consumed[i])
                  \/ IsRemovedLine(consumed[i])
        /\ \A k \in 1..Len(src) : src[k] = r - Len(src) + k - 1

\* C2: the line of such a suggestion is where its first added line is in the new file
C2_AnchorIsReplacementStart ==
    IsText =>
        \A e \in 1..Len(suggestions) :
            C2_IsChange(e) =>
                suggestions[e].line =
                    NewFilePosition(HunkHeaderBefore(emitIdx[e]), emitSrc[e][1])

(***************************************************************************)
(* C3.  Text parser: if the input ends with one or more added lines (no    *)
(* removed line and no hunk header after them) and a file is set, exactly  *)
(* one suggestion is emitted at the end of the scan, containing those      *)
(* pending added lines and anchored at current_line as it stood after      *)
(* them, additions not moving the cursor; if the buffer is empty or no     *)
(* file is set at the end of the scan, nothing is emitted there.           *)
(***************************************************************************)
\* the index of the first line of the run of added lines the input ends with
\* (Len(consumed) + 1 when it does not end with an added line)
RECURSIVE TrailingAddedFrom(_)
TrailingAddedFrom(i) ==
    IF i >= 1 /\ DiffAdded(consumed[i]) THEN TrailingAddedFrom(i - 1) ELSE i + 1

AtEndOfScan == {e \in 1..Len(suggestions) : emitIdx[e] = Len(consumed) + 1}

IsSuffix(t, s) == Len(t) <= Len(s) /\ SubSeq(s, Len(s) - Len(t) + 1, Len(s)) = t

\* C3: the flush at the end of the scan
C3_EndOfScanFlush ==
    (IsText /\ Returned) =>
        LET n == Len(consumed)
            a == TrailingAddedFrom(n)
        IN  /\ (a <= n /\ Truthy(current_file)) =>
                  /\ Cardinality(AtEndOfScan) = 1
                  /\ LET s == Last(suggestions)
                     IN  /\ IsSuffix(Stripped(a, n), s.suggestion)
                         /\ s.line = current_line
                         /\ s.file = current_file
            /\ (~Truthy(new_code) \/ ~Truthy(current_file)) => AtEndOfScan = {}

\* The same statement for a run of lines the scanner takes as added lines.
C3_FlushOfRecognisedLines ==
    (IsText /\ Returned) =>
        LET n == Len(consumed)
            a == TrailingAddedFrom(n)
        IN  /\ (/\ a <= n /\ Truthy(current_file)
                /\ \A i \in a..n : IsAddedLine(consumed[i])) =>
                  /\ Cardinality(AtEndOfScan) = 1
                  /\ LET s == Last(suggestions)
                     IN  /\ IsSuffix(Stripped(a, n), s.suggestion)
                         /\ s.line = current_line
                         /\ s.file = current_file
            /\ (~Truthy(new_code) \/ ~Truthy(current_file)) => AtEndOfScan = {}

(***************************************************************************)
(* C4.  Text parser: for a section of the input that has no new-file       *)
(* header "+++ b/<path>", no suggestion is emitted for the added and       *)
(* removed lines of that section, whatever sections precede or follow it;  *)
(* an input with no file header at all yields an empty output.             *)
(***************************************************************************)
\* a section starts at an old-file header "--- a/<path>" (the first one at line 1)
SectionStart(i) ==
    LET ss == {j \in 1..i : DiffOldHeader(consumed[j])}
    IN  IF ss = {} THEN 1 ELSE Max(ss)
SectionEnd(i) ==
    LET ss == {j \in (i + 1)..Len(consumed) : DiffOldHeader(consumed[j])}
    IN  IF ss = {} THEN Len(consumed) ELSE Min(ss) - 1
SectionHasHeader(i) ==
    \E j \in SectionStart(i)..SectionEnd(i) : DiffNewHeader(consumed[j])

\* C4: every added line of a suggestion lies in a section that has a new-file header
C4_NoHeaderNoSuggestion ==
    (IsText /\ Returned) =>
        \A e \in 1..Len(suggestions) :
            \A k \in 1..Len(emitSrc[e]) : SectionHasHeader(emitSrc[e][k])

(***************************************************************************)
(* C5.  In both parsers every suggestion of the output has a non-empty     *)
(* file and a non-empty suggestion list: no flush point emits from an      *)
(* empty pending buffer or with an unset file.                             *)
(***************************************************************************)
\* C5: no suggestion with an empty file or an empty list
C5_NoEmptySuggestion ==
    \A e \in 1..Len(suggestions) :
        Truthy(suggestions[e].file) /\ Truthy(suggestions[e].suggestion)

\* a returned structured scan that emitted twice and ended on an empty buffer
C5_Witness ==
    /\ Returned
    /\ input_kind = "list"
    /\ Len(suggestions) >= 2
    /\ ~Truthy(new_code)

(***************************************************************************)
(* C6.  Every emitted suggestion has line >= 1 (a 1-based line of the new  *)
(* file), for every input to either parser.                                *)
(***************************************************************************)
\* C6: no suggestion with a line below 1
C6_AnchorIsOneBased ==
    \A e \in 1..Len(suggestions) : suggestions[e].line >= 1

\* The structured parser alone keeps the anchor at 1 or more.
C6_StructuredAnchorIsOneBased ==
    ~IsText => \A e \in 1..Len(suggestions) : suggestions[e].line >= 1

(***************************************************************************)
(* C7.  The output is append-only and in discovery order: a step of the    *)
(* scan leaves the suggestions emitted so far as they are and in place,    *)
(* adds at most one suggestion after them, and a suggestion of the text    *)
(* scan is emitted by a later line than every suggestion before it.        *)
(***************************************************************************)
IsPrefix(t, s) == Len(t) <= Len(s) /\ SubSeq(s, 1, Len(t)) = t

C7_Step ==
    /\ IsPrefix(suggestions, suggestions')
    /\ Len(suggestions') <= Len(suggestions) + 1
    /\ IsPrefix(emitIdx, emitIdx')
    /\ \A e \in 1..Len(emitIdx) : Len(emitIdx') > Len(emitIdx) =>
          emitIdx[e] < Last(emitIdx')

\* C7: every step appends at most one suggestion and changes none
C7_AppendOnly == [][C7_Step]_vars

\* a text scan that emitted two suggestions and then took further lines
C7_Witness ==
    /\ IsText
    /\ Len(suggestions) >= 2
    /\ Len(consumed) > emitIdx[2]
    /\ Truthy(new_code)

(***************************************************************************)
(* C8.  parse_diff routes a text to the text parser and a structured       *)
(* record or a collection of them to the structured parser when structured *)
(* support is available; every other input (any non-text without that     *)
(* support, a collection whose elements are no structured records) ends in *)
(* the unsupported-input-type failure, the only abnormal end of a call.    *)
(***************************************************************************)
UnsupportedInput == exc = "ValueError: Unsupported diff input type"

\* C8, for the inputs that are no text (a text that ends abnormally is C10's)
C8_OnlyUnsupportedInputFails ==
    /\ (~IsText /\ pc = "raised") => UnsupportedInput
    /\ pc = "raw" => IsText
    /\ pc \in {"git_diffs", "git_hunks", "git_lines"} =>
          (GIT_SUPPORT /\ input_kind \in {"list", "GitDiff"})

\* Without the elements of a collection: the routing by the argument's own type.
C8_RoutingByArgumentType ==
    /\ (pc = "raised" /\ UnsupportedInput) =>
          (~IsText /\ ~(GIT_SUPPORT /\ input_kind \in {"list", "GitDiff"}))
    /\ pc = "raw" => IsText
    /\ pc \in {"git_diffs", "git_hunks", "git_lines"} =>
          (GIT_SUPPORT /\ input_kind \in {"list", "GitDiff"})
    /\ (Returned /\ ~IsText) => (GIT_SUPPORT /\ input_kind \in {"list", "GitDiff"})

(***************************************************************************)
(* C9.  For the empty string and for every text with file headers but no   *)
(* hunks (no hunk header, no added and no removed line), parse_diff        *)
(* returns an empty sequence and does not raise.                           *)
(***************************************************************************)
NoHunks ==
    \A i \in 1..Len(consumed) :
        /\ ~DiffHunkHeader(consumed[i])
        /\ ~DiffAdded(consumed[i])
        /\ ~DiffRemoved(consumed[i])

\* C9: a text without hunks returns the empty list and does not raise
C9_NoHunksNoSuggestions ==
    (IsText /\ NoHunks) =>
        /\ pc # "raised"
        /\ Returned => suggestions = <<>>

\* a returned scan of both file headers and nothing else
C9_Witness ==
    /\ IsText
    /\ Returned
    /\ NoHunks
    /\ \E i \in 1..Len(consumed) : DiffNewHeader(consumed[i])
    /\ \E i \in 1..Len(consumed) : DiffOldHeader(consumed[i])
    /\ suggestions = <<>>

(***************************************************************************)
(* C10.  Text parser leniency: whatever the lines, the scan ends with a    *)
(* returned list and never raises; a line that starts with "@@" and does   *)
(* not match the hunk-header pattern is an ordinary content line: it       *)
(* leaves the pending buffer, the removal flag, the file and the output as *)
(* they are and moves the cursor by the content-line rule only.            *)
(***************************************************************************)
Took(l) == consumed' = Append(consumed, l)

C10_Step ==
    \A l \in Alphabet(profile) :
          (Took(l) /\ StartsWith(l, <<"@", "@">>) /\ ~LineRegexMatch(l)) =>
              /\ new_code' = new_code
              /\ removal_reached' = removal_reached
              /\ current_file' = current_file
              /\ suggestions' = suggestions
              /\ current_line' =
                    IF removal_reached THEN current_line ELSE current_line + 1

\* C10: a text never raises, and a malformed hunk header is a content line
C10_Lenient == [](IsText => pc # "raised") /\ [][C10_Step]_vars

\* The second half alone: a malformed hunk header is an ordinary content line.
C10_MalformedHeaderIsContent == [][C10_Step]_vars

(***************************************************************************)
(* C11.  The two scanners on the same content.                             *)
(*                                                                         *)
(* `consumed` holds, for a structured call, the unified diff text of the   *)
(* records it scanned; a record is expressible as text with the same file  *)
(* when it is not binary and has a new-side path.                          *)
(***************************************************************************)
C11_Expressible ==
    /\ ~IsText
    /\ Returned
    /\ \A i \in 1..Len(consumed) : consumed[i] \notin {L_BINARY, L_NEW_NULL}

\* C11: a structured call returns the list the text scanner returns for the
\* same content written as unified diff text
C11_ParsersAgree == C11_Expressible => suggestions = ParseRawDiff(consumed)

(***************************************************************************)
(* C12.  No state between calls.                                           *)
(***************************************************************************)
\* C12: under SpecCalls, whatever the interleaving, a call returns the list
\* the function gives for its own argument, and two calls with the same
\* argument return equal lists
C12_CallsAreIndependent ==
    /\ \A c \in CallIds :
          calls[c].at = "returned" =>
              calls[c].locals.suggestions = ParseRawDiff(calls[c].input)
    /\ \A c, d \in CallIds :
          (calls[c].at = "returned" /\ calls[d].at = "returned"
              /\ calls[c].input = calls[d].input) =>
              calls[c].locals.suggestions = calls[d].locals.suggestions

\* two returned calls with suggestions: one pair with the same argument, one
\* with different arguments
C12_Witness ==
    /\ calls[1].at = "returned"
    /\ calls[2].at = "returned"
    /\ calls[1].locals.suggestions # <<>>
    /\ calls[2].locals.suggestions # <<>>
    /\ calls[1].locals.suggestions # calls[2].locals.suggestions

(***************************************************************************)
(* C13.  What a suggestion emitted at a removed line consists of.          *)
(***************************************************************************)
\* the added lines that immediately precede line r: the longest run ending at r - 1
AddedRunBefore(r) ==
    {i \in 1..(r - 1) : \A j \in i..(r - 1) : DiffAdded(consumed[j])}

EmittedAtRemoved ==
    {e \in 1..Len(suggestions) :
        emitIdx[e] <= Len(consumed) /\ DiffRemoved(consumed[emitIdx[e]])}

\* line r lies in a hunk made of context, added and removed lines only
InPlainHunk(r) ==
    /\ HunkHeaderBefore(r) # 0
    /\ \A i \in (HunkHeaderBefore(r) + 1)..r :
          DiffContext(consumed[i]) \/ DiffAdded(consumed[i]) \/ DiffRemoved(consumed[i])

\* C13: a suggestion the text scanner emits at a removed line is made of the
\* added lines immediately before that line, all of them and no others
C13_ExactlyThePrecedingRun ==
    IsText =>
        \A e \in EmittedAtRemoved :
            LET run == AddedRunBefore(emitIdx[e])
            IN  InPlainHunk(emitIdx[e]) =>
                /\ run # {}
                /\ {emitSrc[e][k] : k \in 1..Len(emitSrc[e])} = run
                /\ suggestions[e].suggestion = Stripped(Min(run), Max(run))

\* what does hold: the suggestion is made of the lines taken as added since the
\* buffer was last emptied (by an emission or a hunk header), whatever lay
\* between them and the removed line
C13_OfAnUninterruptedRun ==
    IsText =>
        \A e \in EmittedAtRemoved :
            LET src == emitSrc[e]
            IN  /\ src # <<>>
                /\ \A k \in 1..Len(src) : IsAddedLine(consumed[src[k]])
                /\ suggestions[e].suggestion = [k \in 1..Len(src) |-> Tail(consumed[src[k]])]

(***************************************************************************)
(* C14.  The step at a hunk header.                                        *)
(***************************************************************************)
C14_Step ==
    \A l \in AllLines :
        (IsText /\ Took(l) /\ DiffHunkHeader(l) /\ pc' = "raw") =>
            /\ current_line' = DiffHunkStart(l) - 1
            /\ new_code' = <<>>
            /\ removal_reached' = FALSE
            /\ current_file' = current_file
            /\ suggestions' = suggestions

\* C14: at a hunk header the cursor becomes the new-file start minus one, the
\* buffer is emptied, the flag cleared, and the file and the output are kept
C14_HunkHeaderResets == [][C14_Step]_vars

\* what does hold: the same step with the number line_regex extracts, and no
\* suggestion made of lines from before the hunk header that precedes it
C14_StepOfTheRegex ==
    \A l \in AllLines :
        (IsText /\ Took(l) /\ IsHunkLine(l) /\ pc' = "raw") =>
            /\ current_line' = LineRegexGroup(l) - 1
            /\ new_code' = <<>>
            /\ removal_reached' = FALSE
            /\ current_file' = current_file
            /\ suggestions' = suggestions
C14_NothingCrossesAHeader ==
    IsText =>
        \A e \in 1..Len(suggestions) : \A k \in 1..Len(emitSrc[e]) :
            \A h \in emitSrc[e][k]..Min({emitIdx[e], Len(consumed)}) :
                ~IsHunkLine(consumed[h])
C14_ResetOfTheRegex == []C14_NothingCrossesAHeader /\ [][C14_StepOfTheRegex]_vars

(***************************************************************************)
(* C15.  The cursor of the text scanner between two hunk headers.          *)
(***************************************************************************)
DiffHeader(l) == DiffNewHeader(l) \/ DiffOldHeader(l) \/ DiffHunkHeader(l)

C15_Step ==
    \A l \in AllLines :
        (IsText /\ Took(l) /\ pc' = "raw") =>
            /\ DiffAdded(l) => current_line' = current_line
            /\ (~DiffAdded(l) /\ ~DiffHeader(l) /\ ~removal_reached) =>
                  current_line' = current_line + 1
            /\ (removal_reached /\ ~DiffHunkHeader(l)) => current_line' = current_line

\* C15: an added line leaves the cursor alone; a context, removed or other
\* non-added, non-header line advances it by one until a removed line has been
\* scanned; after that it stays until the next hunk header
C15_CursorRule == [][C15_Step]_vars

\* what does hold: the rule for the lines the scanner takes as added, and the
\* closed form with the number line_regex extracts
C15_StepOfRecognisedLines ==
    \A l \in AllLines :
        (IsText /\ Took(l) /\ pc' = "raw") =>
            /\ IsAddedLine(l) => current_line' = current_line
            /\ (IsContentLine(l) /\ ~removal_reached) =>
                  current_line' = current_line + 1
            /\ (removal_reached /\ ~IsHunkLine(l)) => current_line' = current_line
C15_ClosedForm ==
    LET hs == {h \in 1..Len(consumed) : IsHunkLine(consumed[h])}
        h == Max(hs)
        counted == {i \in (h + 1)..Len(consumed) :
                       /\ IsContentLine(consumed[i])
                       /\ \A j \in (h + 1)..(i - 1) : ~IsRemovedLine(consumed[j])}
    IN  (IsText /\ pc = "raw" /\ hs # {}) =>
            current_line = LineRegexGroup(consumed[h]) - 1 + Cardinality(counted)
C15_RuleOfRecognisedLines == []C15_ClosedForm /\ [][C15_StepOfRecognisedLines]_vars

(***************************************************************************)
(* C16.  The removal flag.                                                 *)
(***************************************************************************)
C16_FlagStep ==
    \A l \in AllLines :
        (IsText /\ Took(l) /\ removal_reached /\ ~IsHunkLine(l)) => removal_reached'

C16_OnePerHunk ==
    IsText =>
        \A e1, e2 \in EmittedAtRemoved :
            (/\ e1 < e2
             /\ HunkHeaderBefore(emitIdx[e1]) # 0
             /\ InPlainHunk(emitIdx[e2])) =>
                HunkHeaderBefore(emitIdx[e1]) < HunkHeaderBefore(emitIdx[e2])

\* C16: once a removed line has been scanned the flag stays set until the next
\* hunk header, and no later removed line of the hunk emits a suggestion: at
\* most one suggestion of a hunk is emitted at a removed line
C16_FlagPreventsRetrigger == []C16_OnePerHunk /\ [][C16_FlagStep]_vars

\* what does hold: the flag stays set until the next hunk header, and while it
\* is set the cursor stays where it is
C16_FlagHoldsTheCursor ==
    [][C16_FlagStep /\ (\A l \in AllLines :
                           (IsText /\ Took(l) /\ removal_reached /\ ~IsHunkLine(l)) =>
                               current_line' = current_line)]_vars

(***************************************************************************)
(* C17.  The step at a file header.                                        *)
(***************************************************************************)
C17_NewHeaderStep ==
    \A l \in AllLines :
        (IsText /\ Took(l) /\ DiffNewHeader(l)) =>
            /\ current_file' = SubSeq(l, 7, Len(l))
            /\ UNCHANGED <<current_line, new_code, removal_reached, suggestions>>

C17_OldHeaderStep ==
    \A l \in AllLines :
        (IsText /\ Took(l) /\ DiffOldHeader(l)) =>
            UNCHANGED <<current_file, current_line, new_code, removal_reached,
                        suggestions>>

\* C17: a new-file header sets current_file and nothing else; an old-file
\* header changes nothing of the scanner's state and emits nothing
C17_FileHeaders == [][C17_NewHeaderStep /\ C17_OldHeaderStep]_vars

\* what does hold: the new-file header's step, and an old-file header that
\* moves nothing but the cursor
C17_OldHeaderIsContent ==
    [][/\ C17_NewHeaderStep
       /\ \A l \in AllLines :
             (IsText /\ Took(l) /\ DiffOldHeader(l)) =>
                 /\ UNCHANGED <<current_file, new_code, removal_reached, suggestions>>
                 /\ current_line' = Advanced]_vars

(***************************************************************************)
(* C18.  The cursor of the structured scanner.                             *)
(***************************************************************************)
IsGit == input_kind \in {"list", "GitDiff"} /\ GIT_SUPPORT

\* the context and added lines of the record being scanned at index i, over all
\* its hunks so far, strictly before index i
NewSideBefore(i) == NewSideLines(RecordHeaderIdx(i - 1) + 1, i - 1)

\* C18: the cursor of a record is the number of its context and added lines
\* scanned so far, over all its hunks (removed lines and hunk boundaries leave
\* it alone), and a suggestion's line is that number before the flushing line
C18_CursorCountsNewSide ==
    IsGit =>
        /\ pc = "git_lines" => current_line = NewSideBefore(Len(consumed) + 1)
        /\ pc = "git_hunks" => outer_line = NewSideBefore(Len(consumed) + 1)
        /\ \A e \in 1..Len(suggestions) :
              suggestions[e].line = NewSideBefore(emitIdx[e])

\* a suggestion flushed by a removed line of a record's second hunk, after
\* context and added lines in both hunks
C18_Witness ==
    /\ IsGit
    /\ Returned
    /\ \E e \in 1..Len(suggestions) :
          LET r == emitIdx[e]
              f == RecordHeaderIdx(r - 1)
          IN  /\ r <= Len(consumed)
              /\ consumed[r][1] = "-"
              /\ Cardinality({h \in (f + 1)..r : DiffHunkHeader(consumed[h])}) = 2
              /\ \E i, j \in (f + 1)..r :
                    /\ i < j
                    /\ consumed[i][1] \in {" ", "+"}
                    /\ DiffHunkHeader(consumed[j])
              /\ suggestions[e].line = 2

(***************************************************************************)
(* C19.  The final flush of the structured scanner.                        *)
(***************************************************************************)
\* the suggestions that no context or removed line triggered
NotTriggered ==
    {e \in 1..Len(suggestions) :
        \/ emitIdx[e] > Len(consumed)
        \/ ~(DiffContext(consumed[emitIdx[e]]) \/ DiffRemoved(consumed[emitIdx[e]]))}

\* C19: pending added lines are flushed only after the last hunk of their
\* record, so a record has at most one suggestion that no context or removed
\* line triggered, and none is emitted where another hunk of the record follows
C19_OneFinalFlushPerRecord ==
    IsGit =>
        /\ \A e \in NotTriggered :
              emitIdx[e] <= Len(consumed) => ~DiffHunkHeader(consumed[emitIdx[e]])
        /\ \A e1, e2 \in NotTriggered :
              e1 # e2 =>
                  RecordHeaderIdx(emitIdx[e1] - 1) # RecordHeaderIdx(emitIdx[e2] - 1)

\* what does hold: added lines pending at the end of a hunk are emitted there,
\* and no suggestion holds lines of two hunks
C19_FlushAtEachHunkEnd ==
    IsGit =>
        /\ (pc = "git_hunks" /\ consumed # <<>> /\ Last(consumed)[1] = "+"
               /\ ~StartsWith(Last(consumed), <<"+", "+", "+", " ">>)) =>
              \E e \in 1..Len(suggestions) : emitIdx[e] = Len(consumed) + 1
        /\ \A e \in 1..Len(suggestions) : \A k \in 1..Len(emitSrc[e]) :
              \A h \in emitSrc[e][k]..(emitIdx[e] - 1) : ~DiffHunkHeader(consumed[h])

(***************************************************************************)
(* C20.  The records the structured scanner skips, and the file it names.  *)
(***************************************************************************)
\* the path after "--- a/" or "+++ b/" in a header line, <<>> for /dev/null
HeaderPath(l) ==
    IF l \in {L_OLD_NULL, L_NEW_NULL} THEN <<>> ELSE SubSeq(l, 7, Len(l))

\* the file of the record whose "+++" line is consumed[f]: the new-side path
\* when the record has one, else the old-side path
RecordFileIn(text, f) ==
    IF HeaderPath(text[f]) # <<>> THEN HeaderPath(text[f]) ELSE HeaderPath(text[f - 1])
RecordFile(f) == RecordFileIn(consumed, f)

C20_FileIsRecordPath ==
    IsGit =>
        \A e \in 1..Len(suggestions) :
            LET f == RecordHeaderIdx(emitIdx[e] - 1)
            IN  /\ f # 0
                /\ RecordFile(f) # <<>>
                /\ suggestions[e].file = RecordFile(f)

C20_Step ==
    IsGit =>
        \* a record is skipped: binary, or without any path
        /\ (pc = "git_diffs" /\ pc' = "git_diffs" /\ nDiffs' = nDiffs + 1) =>
              /\ suggestions' = suggestions
              /\ \/ Last(consumed') = L_BINARY
                 \/ /\ Last(consumed') = L_NEW_NULL
                    /\ consumed'[Len(consumed') - 1] = L_OLD_NULL
        \* a record is entered: it is not binary, has a path, and starts at 0
        /\ (pc = "git_diffs" /\ pc' = "git_hunks") =>
              /\ suggestions' = suggestions
              /\ outer_line' = 0
              /\ file_path' = RecordFileIn(consumed', Len(consumed'))
              /\ file_path' # <<>>

\* C20: a binary record and a record without a path add nothing to the output;
\* every other record is scanned from cursor 0 under its new-side path, or its
\* old-side path when it has no new-side path
C20_FileSelection == []C20_FileIsRecordPath /\ [][C20_Step]_vars

\* a binary record, then a record with both paths whose suggestion is returned
C20_Witness ==
    /\ IsGit
    /\ Returned
    /\ Len(consumed) >= 3
    /\ consumed[1] = L_BINARY
    /\ consumed[2] = RenderOld(<<"g">>)
    /\ consumed[3] = RenderNew(<<"f">>)
    /\ suggestions = <<CodeSuggestion(<<"f">>, 1, <<<<"x">>>>)>>

\* a record without a path, then a record with an old-side path only
C20_FallbackCase ==
    /\ IsGit
    /\ Returned
    /\ Len(consumed) >= 4
    /\ consumed[1] = L_OLD_NULL
    /\ consumed[2] = L_NEW_NULL
    /\ consumed[3] = RenderOld(<<"g">>)
    /\ consumed[4] = L_NEW_NULL
    /\ suggestions = <<CodeSuggestion(<<"g">>, 1, <<<<"x">>>>)>>

(***************************************************************************)
(* C21.  The two copies of the text scanner.                               *)
(***************************************************************************)
\* C21: under SpecCopies, after every line of the same text the two copies
\* hold the same file, cursor, buffer and flag and have emitted the same
\* records, and they end alike: the same list returned, or both raising
C21_CopiesAgree == copies.raw = copies.ws

\* both copies returned two suggestions, the second after the flag was set
C21_Witness ==
    /\ copies.at = "returned"
    /\ Len(copies.ws.suggestions) = 2
    /\ copies.ws.removal_reached
    /\ copies.ws.current_line >= 1

\* both copies ended with int()'s ValueError
C21_BothRaise ==
    /\ copies.at = "raised"
    /\ copies.raw.exc = "ValueError: int string conversion"
    /\ copies.ws.exc = "ValueError: int string conversion"

(***************************************************************************)
(* C22.  The posting protocol.                                             *)
(***************************************************************************)
\* what the parser of the procedure returns for the call's text, <<>> if it raises
PostParsed ==
    IF post.proc = "suggest"
    THEN WsAfterLoop(WsLoop(WsLocals, post.text)).suggestions
    ELSE ParseRawDiff(post.text)

\* the positions in the log of a request or of the parsing
LogAt(what) == {i \in 1..Len(post.log) : post.log[i] = what}

PostEnded == post.at \in {"returned", "raised"}

\* C22: under SpecPost, a call creates at most one review, and only for a
\* non-empty parsed list; the review has one comment per suggestion, in order,
\* with path = file and line = position = line.  In suggest nothing is asked
\* of GitHub without a token, the pull request is looked up before the diff is
\* parsed, and without an open pull request the call fails whatever the diff
C22_PostingProtocol ==
    /\ Len(post.reviews) <= 1
    /\ Cardinality(LogAt("create_review")) <= 1
    /\ \A r \in 1..Len(post.reviews) :
          LET cs == post.reviews[r].comments
          IN  /\ PostParsed # <<>>
              /\ Len(cs) = Len(PostParsed)
              /\ \A k \in 1..Len(cs) :
                    /\ cs[k].path = PostParsed[k].file
                    /\ cs[k].line = PostParsed[k].line
                    /\ cs[k].position = PostParsed[k].line
    /\ PostParsed = <<>> => LogAt("create_review") = {}
    /\ post.proc = "suggest" =>
          /\ ~post.token =>
                /\ post.log = <<>>
                /\ PostEnded => post.exc = "ValueError: GitHub token is required"
          /\ \A i \in LogAt("parse_diff") :
                \E j \in LogAt("get_pr_for_commit") : j < i
          /\ (post.token /\ ~post.has_pr) =>
                /\ LogAt("parse_diff") = {}
                /\ post.reviews = <<>>
                /\ PostEnded => post.at = "raised"

\* suggest has posted a review of three comments
C22_Witness ==
    /\ post.proc = "suggest"
    /\ post.at = "returned"
    /\ Len(post.reviews) = 1
    /\ Len(post.reviews[1].comments) = 3

\* cases of the claim that are reached as well
C22_PostedByClient ==
    /\ post.proc = "post_code_suggestions"
    /\ post.at = "returned"
    /\ Len(post.reviews) = 1
    /\ Len(post.reviews[1].comments) = 2
C22_NothingToPost ==
    /\ post.at = "returned"
    /\ post.log # <<>>
    /\ PostParsed = <<>>
    /\ post.reviews = <<>>
C22_NoPullRequestNoSuggestion ==
    /\ post.proc = "suggest"
    /\ post.exc = "ValueError: No pull requests found"
    /\ PostParsed = <<>>

====
